---- MODULE Spec2Model ----
(***************************************************************************)
(* Model of src/app.py, the Streamlit "Project Pricer".                    *)
(*                                                                         *)
(* A Streamlit script is re-executed from the top on every widget          *)
(* interaction.  One action of this model is one such script run,          *)
(* triggered by one user interaction.  Widget values and                   *)
(* st.session_state survive between runs, everything else is a local of    *)
(* the run and describes what the run rendered.                            *)
(*                                                                         *)
(* Numbers: Qty and unit prices are integers (currency units), tax_rate    *)
(* is the slider value in slider steps (tenths of a percent), and every    *)
(* computed amount is kept exactly, in units of 1/Scale currency unit, so  *)
(* that no rounding takes place in the model.                              *)
(***************************************************************************)
EXTENDS Integers, Sequences, FiniteSets, TLC

(* ------------------------------ bounds -------------------------------- *)
MaxItems == 2          \* longest shopping list the pricing specification draws
MaxVal == 1            \* largest quantity / unit price in a drawn line item
MaxPages == 7          \* longest uploaded PDF
MaxSessionItems == 1   \* longest shopping list of the session specification

(* ------------------------- program constants -------------------------- *)
PageCap == 5           \* range(min(len(doc), 5))
Zoom == 3              \* fitz.Matrix(3, 3)
PercentBase == 100     \* tax_rate / 100.0
StepsPerPercent == 10  \* slider step = 0.1
MinTaxRate == 0        \* slider min_value = 0.0
DefaultTaxRate == 70   \* slider value = 7.0
MaxTaxRate == 150      \* slider max_value = 15.0
Scale == PercentBase * StepsPerPercent

\* slider positions the model explores
TaxRates == {MinTaxRate, DefaultTaxRate, MaxTaxRate}

(* ------------------------------- cells -------------------------------- *)
\* One JSON value / DataFrame cell.  "absent": the key is not in the row's
\* JSON object; "str": a non-numeric string; "nan": a float NaN cell.
Num(n) == [t |-> "num", v |-> n]
Absent == [t |-> "absent", v |-> 0]
Str == [t |-> "str", v |-> 0]
NaN == [t |-> "nan", v |-> 0]

Columns == {"Qty", "Price_HD", "Price_Lowes"}

(* ---------------------------- process_file ---------------------------- *)
PDF == "application/pdf"
PNG == "image/png"

NoFile == [type |-> "none", readable |-> FALSE, pages |-> <<>>]
PdfFile(n) == [type |-> PDF, readable |-> TRUE, pages |-> [i \in 1..n |-> i]]
CorruptPdf == [type |-> PDF, readable |-> FALSE, pages |-> <<>>]
ImageFile == [type |-> PNG, readable |-> TRUE, pages |-> <<1>>]

Files == {PdfFile(n) : n \in 1..MaxPages} \cup {CorruptPdf, ImageFile}

Min(a, b) == IF a < b THEN a ELSE b

\* page.get_pixmap(matrix=fitz.Matrix(3, 3)).tobytes("png"), base64 encoded
RenderPage(page) == [enc |-> "base64", fmt |-> "png", zoom |-> Zoom, page |-> page]
\* base64.b64encode(uploaded_file.getvalue()): the raw bytes, not re-rendered
EncodeRaw(page) == [enc |-> "base64", fmt |-> "raw", zoom |-> 1, page |-> page]

\* for page_num in range(min(len(doc), 5)): doc.load_page(page_num)
\* (page_num is 0-based, the sequence is 1-based)
PdfImagesOffByOne(doc) == [k \in 1..Min(Len(doc), PageCap + 1) |-> RenderPage(doc[k])]
PdfImages(doc) == [k \in 1..Min(Len(doc), PageCap) |-> RenderPage(doc[k])]

\* process_file: raises (ok = FALSE) when fitz.open cannot read the stream
process_file(f) ==
    IF f.type = PDF
    THEN IF f.readable
         THEN [ok |-> TRUE, images |-> PdfImages(f.pages)]
         ELSE [ok |-> FALSE, images |-> <<>>]
    ELSE [ok |-> TRUE, images |-> <<EncodeRaw(f.pages[1])>>]

(* --------------------------- pd.DataFrame ----------------------------- *)
\* A column exists iff at least one record has the key; a record without
\* the key gets NaN in an existing column.
HasColumn(list, c) == \E i \in 1..Len(list) : list[i][c].t # "absent"

FillCell(list, i, c) ==
    IF list[i][c].t = "absent" /\ HasColumn(list, c) THEN NaN ELSE list[i][c]

DataFrame(list) ==
    [i \in 1..Len(list) |->
        [Qty |-> FillCell(list, i, "Qty"),
         Price_HD |-> FillCell(list, i, "Price_HD"),
         Price_Lowes |-> FillCell(list, i, "Price_Lowes"),
         Total_HD |-> Absent,
         Total_Lowes |-> Absent]]

\* st.data_editor(df, ..., key="editor") in a run that has no stored edits
data_editor(df) == df

(* ------------------------- calculation engine ------------------------- *)
\* edited_df[c] raises KeyError when no row carries the column
KeyError(df, c) == \A i \in 1..Len(df) : df[i][c].t = "absent"

\* a str operand ends in a TypeError before any total is formed
TypeError(df, c) == \E i \in 1..Len(df) : df[i][c].t = "str"

\* element of Series * Series
Mul(a, b) ==
    IF a.t = "nan" \/ b.t = "nan" THEN NaN ELSE Num(a.v * b.v)

RECURSIVE SumFrom(_, _, _)
SumFrom(df, c, i) ==
    IF i > Len(df) THEN 0
    ELSE (IF df[i][c].t = "num" THEN df[i][c].v ELSE 0) + SumFrom(df, c, i + 1)

\* Series.sum(): skipna=True, 0 for an empty Series
SumSkipsLast(df, c) == IF Len(df) > 1 THEN SumFrom(SubSeq(df, 1, Len(df) - 1), c, 1) ELSE SumFrom(df, c, 1)
Sum(df, c) == SumFrom(df, c, 1)

WithTotals(df) ==
    [i \in 1..Len(df) |->
        [df[i] EXCEPT !.Total_HD = Mul(df[i].Qty, df[i].Price_HD),
                      !.Total_Lowes = Mul(df[i].Qty, df[i].Price_Lowes)]]

HD == "HOME DEPOT"
LOWES == "LOWE'S"

WinnerNonStrict(hd_final, lowes_final) == IF hd_final <= lowes_final THEN HD ELSE LOWES
Winner(hd_final, lowes_final) == IF hd_final < lowes_final THEN HD ELSE LOWES

NoResult ==
    [hd_subtotal |-> 0, lowes_subtotal |-> 0, hd_tax |-> 0, lowes_tax |-> 0,
     hd_final |-> 0, lowes_final |-> 0, winner |-> "none"]

Failed(e, df) == [ok |-> FALSE, err |-> e, df |-> df, res |-> NoResult]

Engine(df, rate) ==
    IF KeyError(df, "Qty") \/ KeyError(df, "Price_HD")
    THEN Failed("KeyError", df)
    ELSE IF TypeError(df, "Qty") \/ TypeError(df, "Price_HD")
    THEN Failed("TypeError", df)
    ELSE IF KeyError(df, "Price_Lowes")
    THEN Failed("KeyError", df)
    ELSE IF TypeError(df, "Price_Lowes")
    THEN Failed("TypeError", df)
    ELSE LET tdf == WithTotals(df)
             hd_sub == Sum(tdf, "Total_HD")
             lowes_sub == Sum(tdf, "Total_Lowes")
             hd_tax == hd_sub * rate
             lowes_tax == lowes_sub * rate
             hd_final == hd_sub * Scale + hd_tax
             lowes_final == lowes_sub * Scale + lowes_tax
         IN [ok |-> TRUE, err |-> "", df |-> tdf,
             res |-> [hd_subtotal |-> hd_sub * Scale,
                      lowes_subtotal |-> lowes_sub * Scale,
                      hd_tax |-> hd_tax, lowes_tax |-> lowes_tax,
                      hd_final |-> hd_final, lowes_final |-> lowes_final,
                      winner |-> Winner(hd_final, lowes_final)]]

(* --------------------------- the AI service --------------------------- *)
\* json.loads(result_text): the parsed object, with or without the
\* "shopping_list" key ("cut_list" takes no part in any computation)
Data(has, list) == [has_list |-> has, shopping_list |-> list]
EmptyObject == Data(FALSE, <<>>)

\* what client.chat.completions.create + json.loads end in
ServiceError == [kind |-> "service_error", data |-> EmptyObject]
NotJson == [kind |-> "not_json", data |-> EmptyObject]
Json(d) == [kind |-> "json", data |-> d]
NoReply == [kind |-> "none", data |-> EmptyObject]

Items(qtys, prices) == [Qty : qtys, Price_HD : prices, Price_Lowes : prices]
ShoppingLists(n, items) == UNION {[1..k -> items] : k \in 0..n}

Nums(lo, hi) == {Num(n) : n \in lo..hi}

\* replies of the pricing specification: every list of at most MaxItems
\* items, valid or with a negative, missing or non-numeric quantity or a
\* missing price
PricingReplies ==
    {Json(Data(TRUE, l)) :
        l \in ShoppingLists(MaxItems,
                 Items(Nums(-1, MaxVal) \cup {Absent, Str}, Nums(0, MaxVal) \cup {Absent}))}

\* replies of the session specification
SessionReplies ==
    {ServiceError, NotJson, Json(EmptyObject)} \cup
    {Json(Data(TRUE, l)) :
        l \in ShoppingLists(MaxSessionItems,
                 Items({Num(1), Str}, {Num(1)}))}

(* ------------------------------- state -------------------------------- *)
VARIABLES
    uploaded_file,   \* st.file_uploader value (NoFile: nothing uploaded)
    api_key,         \* TRUE iff api_key is a non-empty string
    tax_rate,        \* st.sidebar.slider value, in slider steps
    session_state,   \* st.session_state: [has_data, data]
    service,         \* what the completion service answers to the next call
    event,           \* the interaction that caused the latest script run
    edit,            \* the cell edit that caused the latest run, if any
    images,          \* run local: process_file's return value
    reply,           \* run local: the service's answer consumed by this run
    editor_shown,    \* the run rendered st.data_editor
    edited_df,       \* run local: the table after the calculation engine
    result,          \* run local: hd_subtotal .. lowes_final and the trophy
    outcome          \* what the run rendered

vars == <<uploaded_file, api_key, tax_rate, session_state, service, event,
          edit, images, reply, editor_shown, edited_df, result, outcome>>

NoEdit == [row |-> 0, col |-> "none", val |-> Absent]

\* a script run in which st.button returns False: nothing of a previous
\* analysis is rendered; without a key the warning of the elif branch shows
Rerun(key) ==
    /\ images' = <<>>
    /\ reply' = NoReply
    /\ editor_shown' = FALSE
    /\ edited_df' = <<>>
    /\ result' = NoResult
    /\ outcome' = IF key THEN "idle" ELSE "need_key"

InitWith(replies) ==
    /\ uploaded_file = NoFile
    /\ api_key = FALSE
    /\ tax_rate = DefaultTaxRate
    /\ session_state = [has_data |-> FALSE, data |-> EmptyObject]
    /\ service \in replies
    /\ event = "start"
    /\ edit = NoEdit
    /\ images = <<>>
    /\ reply = NoReply
    /\ editor_shown = FALSE
    /\ edited_df = <<>>
    /\ result = NoResult
    /\ outcome = "need_key"

Init == InitWith(SessionReplies)

(* ------------------------------ actions ------------------------------- *)
Upload ==
    \E f \in Files \cup {NoFile} :
        /\ uploaded_file' = f
        /\ event' = "upload"
        /\ edit' = NoEdit
        /\ Rerun(api_key)
        /\ UNCHANGED <<api_key, tax_rate, session_state, service>>

SetApiKey ==
    \E k \in BOOLEAN :
        /\ k # api_key
        /\ api_key' = k
        /\ event' = "key"
        /\ edit' = NoEdit
        /\ Rerun(k)
        /\ UNCHANGED <<uploaded_file, tax_rate, session_state, service>>

SetTaxRate ==
    \E r \in TaxRates :
        /\ r # tax_rate
        /\ tax_rate' = r
        /\ event' = "tax"
        /\ edit' = NoEdit
        /\ Rerun(api_key)
        /\ UNCHANGED <<uploaded_file, api_key, session_state, service>>

\* the user changes one cell of the rendered data_editor
EditCell ==
    /\ editor_shown
    /\ \E i \in 1..Len(edited_df), c \in Columns, n \in 0..MaxVal + 1 :
        /\ edited_df[i][c] # Num(n)
        /\ edit' = [row |-> i, col |-> c, val |-> Num(n)]
    /\ event' = "edit"
    /\ Rerun(api_key)
    /\ UNCHANGED <<uploaded_file, api_key, tax_rate, session_state, service>>

\* the completion service is not deterministic between calls
ServiceVaries ==
    /\ service' \in SessionReplies
    /\ service' # service
    /\ UNCHANGED <<uploaded_file, api_key, tax_rate, session_state, event,
                   edit, images, reply, editor_shown, edited_df, result, outcome>>

\* if 'data' not in st.session_state: st.session_state['data'] = data
Store(ss, data) == IF ss.has_data THEN ss ELSE [has_data |-> TRUE, data |-> data]

\* one click on "Analyze Project"
Analyze ==
    /\ uploaded_file # NoFile
    /\ api_key
    /\ event' = "analyze"
    /\ edit' = NoEdit
    /\ LET pf == process_file(uploaded_file) IN
       IF ~pf.ok
       THEN \* process_file raises outside the try block
            /\ images' = <<>>
            /\ reply' = NoReply
            /\ editor_shown' = FALSE
            /\ edited_df' = <<>>
            /\ result' = NoResult
            /\ outcome' = "unhandled"
            /\ UNCHANGED session_state
       ELSE
            /\ images' = pf.images
            /\ reply' = service
            /\ IF service.kind # "json"
               THEN \* the call or json.loads raises inside the try block
                    /\ editor_shown' = FALSE
                    /\ edited_df' = <<>>
                    /\ result' = NoResult
                    /\ outcome' = "error"
                    /\ UNCHANGED session_state
               ELSE /\ session_state' = Store(session_state, service.data)
                    /\ IF ~service.data.has_list
                       THEN /\ editor_shown' = FALSE
                            /\ edited_df' = <<>>
                            /\ result' = NoResult
                            /\ outcome' = "no_table"
                       ELSE LET df == DataFrame(service.data.shopping_list)
                                eng == Engine(data_editor(df), tax_rate)
                            IN /\ editor_shown' = TRUE
                               /\ edited_df' = eng.df
                               /\ result' = eng.res
                               /\ outcome' = IF eng.ok THEN "results" ELSE "error"
    /\ UNCHANGED <<uploaded_file, api_key, tax_rate, service>>

Next == Upload \/ SetApiKey \/ SetTaxRate \/ EditCell \/ ServiceVaries \/ Analyze

Spec == Init /\ [][Next]_vars

\* the pricing specification: a session with a file and a key, a service
\* that keeps answering the drawn reply
InitPricing ==
    /\ uploaded_file = ImageFile
    /\ api_key = TRUE
    /\ tax_rate \in TaxRates
    /\ session_state = [has_data |-> FALSE, data |-> EmptyObject]
    /\ service \in PricingReplies
    /\ event = "upload"
    /\ edit = NoEdit
    /\ images = <<>>
    /\ reply = NoReply
    /\ editor_shown = FALSE
    /\ edited_df = <<>>
    /\ result = NoResult
    /\ outcome = "idle"

NextPricing == SetTaxRate \/ Analyze

SpecPricing == InitPricing /\ [][NextPricing]_vars

TypeOK ==
    /\ uploaded_file \in Files \cup {NoFile}
    /\ api_key \in BOOLEAN
    /\ tax_rate \in TaxRates
    /\ outcome \in {"idle", "need_key", "unhandled", "error", "no_table", "results"}

(* ------------------------------ claims -------------------------------- *)
Analysed == event = "analyze"
ParsedList == reply.kind = "json" /\ reply.data.has_list
TheList == reply.data.shopping_list

ValidCell(c) == c.t = "num" /\ c.v >= 0
ValidRows(rows) ==
    \A i \in 1..Len(rows) : \A c \in Columns : ValidCell(rows[i][c])

\* the sum of quantity * unit price over a list of valid line items
RECURSIVE RefSum(_, _)
RefSum(rows, c) ==
    IF rows = <<>> THEN 0
    ELSE Head(rows).Qty.v * Head(rows)[c].v + RefSum(Tail(rows), c)

\* C1: for every list of line items with non-negative quantity and prices
\* the pricing computation yields subtotal = sum of quantity * unit price,
\* tax = subtotal * rate / 100 and total = subtotal + tax for both
\* retailers, unrounded.
C1_PricingFormula ==
    (Analysed /\ ParsedList /\ ValidRows(TheList)) =>
        /\ outcome = "results"
        /\ result.hd_subtotal = Scale * RefSum(TheList, "Price_HD")
        /\ result.lowes_subtotal = Scale * RefSum(TheList, "Price_Lowes")
        /\ result.hd_tax * Scale = result.hd_subtotal * tax_rate
        /\ result.lowes_tax * Scale = result.lowes_subtotal * tax_rate
        /\ result.hd_final = result.hd_subtotal + result.hd_tax
        /\ result.lowes_final = result.lowes_subtotal + result.lowes_tax

\* C2: in every displayed result exactly one retailer carries the trophy,
\* Home Depot iff its total is strictly less than Lowe's total, Lowe's in
\* every other case, ties included.
C2_CheaperRetailer ==
    outcome = "results" =>
        /\ result.winner \in {HD, LOWES}
        /\ result.winner = HD <=> result.hd_final < result.lowes_final
        /\ result.hd_final = result.lowes_final => result.winner = LOWES

C2_TieShown ==
    /\ outcome = "results"
    /\ result.hd_final = result.lowes_final
    /\ result.hd_final > 0
    /\ result.winner = LOWES

\* C3: an empty shopping list is priced without error: all subtotals, taxes
\* and totals are zero and Lowe's is reported as the cheaper retailer.
C3_EmptyListIsZero ==
    (Analysed /\ ParsedList /\ TheList = <<>>) =>
        /\ outcome = "results"
        /\ result = [NoResult EXCEPT !.winner = LOWES]

\* C4: a line item with a missing, non-numeric or negative quantity or price
\* makes the analyze action end in the error display, with no subtotal, tax
\* or total shown.
C4_BadItemRejected ==
    (Analysed /\ ParsedList /\ ~ValidRows(TheList)) =>
        /\ outcome = "error"
        /\ result = NoResult

\* C5: every failure of an analyze action, whichever stage raises it, ends
\* in the "Error: ..." display and never escapes as an unhandled exception.
C5_FailuresSurface ==
    (Analysed /\ outcome \notin {"results", "no_table"}) => outcome = "error"

\* C6: an analyze action that ends in a failure leaves st.session_state as
\* it was before the action.
C6_FailureKeepsSession ==
    [][(event' = "analyze" /\ outcome' \in {"error", "unhandled"})
          => session_state' = session_state]_vars

ApplyEdit(df, e) ==
    IF e.row \in 1..Len(df) THEN [df EXCEPT ![e.row][e.col] = e.val] ELSE df

\* C7: once results are shown, the run after an edit of a cell or of the tax
\* rate shows the results again, recomputed from the edited values.
C7_EditRecomputes ==
    [][(outcome = "results" /\ event' \in {"edit", "tax"})
          => /\ outcome' = "results"
             /\ result' = Engine(ApplyEdit(edited_df, edit'), tax_rate').res]_vars

\* C8: process_file on a PDF of n pages returns min(n, 5) images, the i-th
\* being the rendering of the i-th page.
C8_PdfPages ==
    (Analysed /\ uploaded_file.type = PDF /\ uploaded_file.readable) =>
        /\ Len(images) = Min(Len(uploaded_file.pages), PageCap)
        /\ \A i \in 1..Len(images) :
               images[i] = RenderPage(uploaded_file.pages[i])

C8_LongPdfAnalysed ==
    /\ Analysed
    /\ uploaded_file.type = PDF
    /\ Len(uploaded_file.pages) > PageCap
    /\ Len(images) = PageCap
    /\ images[PageCap].page = uploaded_file.pages[PageCap]

Bump(df, i, c) == [df EXCEPT ![i][c] = Num(@.v + 1)]
Bumped(i, c) == Engine(Bump(edited_df, i, c), tax_rate).res
ValidResults == outcome = "results" /\ ValidRows(edited_df)

\* C9 as stated: raising one item's quantity or one of its prices strictly
\* raises the total of every affected retailer and never lowers the other.
C9_StrictlyMonotone ==
    ValidResults =>
        \A i \in 1..Len(edited_df) :
            /\ Bumped(i, "Qty").hd_final > result.hd_final
            /\ Bumped(i, "Qty").lowes_final > result.lowes_final
            /\ Bumped(i, "Price_HD").hd_final > result.hd_final
            /\ Bumped(i, "Price_HD").lowes_final >= result.lowes_final
            /\ Bumped(i, "Price_Lowes").lowes_final > result.lowes_final
            /\ Bumped(i, "Price_Lowes").hd_final >= result.hd_final

\* C9 (amended): raising one item's quantity or one of its prices never
\* lowers either total; it strictly raises an affected retailer's total when
\* the item's other factor (its price at that retailer, resp. its quantity)
\* is positive and leaves that total unchanged when the factor is zero.
C9_Monotone ==
    ValidResults =>
        \A i \in 1..Len(edited_df) :
            LET row == edited_df[i]
                Raised(new, old, factor) ==
                    IF factor > 0 THEN new > old ELSE new = old
            IN /\ Raised(Bumped(i, "Qty").hd_final, result.hd_final, row.Price_HD.v)
               /\ Raised(Bumped(i, "Qty").lowes_final, result.lowes_final, row.Price_Lowes.v)
               /\ Raised(Bumped(i, "Price_HD").hd_final, result.hd_final, row.Qty.v)
               /\ Bumped(i, "Price_HD").lowes_final >= result.lowes_final
               /\ Raised(Bumped(i, "Price_Lowes").lowes_final, result.lowes_final, row.Qty.v)
               /\ Bumped(i, "Price_Lowes").hd_final >= result.hd_final

C9_MixedFactorsShown ==
    /\ ValidResults
    /\ Len(edited_df) > 1
    /\ \E i \in 1..Len(edited_df) :
           edited_df[i].Qty.v > 0 /\ edited_df[i].Price_HD.v = 0
    /\ \E i \in 1..Len(edited_df) :
           edited_df[i].Qty.v > 0 /\ edited_df[i].Price_HD.v > 0

\* C10: after an analysis that succeeded, st.session_state['data'] is the
\* parsed result of that analysis (created by the first, replaced by every
\* later one).
C10_LatestStored ==
    (Analysed /\ outcome \in {"results", "no_table"}) =>
        /\ session_state.has_data
        /\ session_state.data = reply.data

====
